---------------------------- MODULE Spec2Model ----------------------------
(***************************************************************************)
(* Whispr: a reactive value container (Observable / Whispr / Whispr.from). *)
(* The model follows src/src/Observable.ts, src/src/Whispr.ts and the      *)
(* safeClone function of src/src/WhisprMap.ts.                             *)
(*                                                                         *)
(* JavaScript is single threaded: every public call (a setter call, a      *)
(* subscribe, a read, from, wait) runs to completion, nested listener      *)
(* calls included, and is one action.  A listener that returns a promise   *)
(* leaves a continuation in `pending`, which a later action completes.     *)
(* The garbage collector (WeakRef / FinalizationRegistry) is two actions:  *)
(* Collect clears the weak reference of an unreachable handle, Finalize    *)
(* runs the registered onDie callback.                                     *)
(***************************************************************************)
EXTENDS Integers, Sequences, FiniteSets, Bags, TLC

(***************************************************************************)
(* Bounds of the model.                                                    *)
(***************************************************************************)
MaxListeners == 2   \* subscriptions per cell
MaxPending == 2     \* suspended listener invocations in flight
MaxNum == 2         \* numbers written are 0..MaxNum
MaxObj == 6         \* heap objects (plain records) alive at once
MaxRefs == 2        \* objects the application holds at once

(***************************************************************************)
(* Values.  A JavaScript value is undefined, null, a number, or a          *)
(* reference to a heap object; every value is a record of one shape so     *)
(* that any two values can be compared.                                    *)
(***************************************************************************)
Undef == [k |-> "undef", n |-> 0]
Null == [k |-> "null", n |-> 0]
Num(i) == [k |-> "num", n |-> i]
Ref(i) == [k |-> "obj", n |-> i]
Nums == {Num(i) : i \in 0..MaxNum}
Prims == {Undef, Null} \cup Nums
ObjIds == 1..MaxObj
IsRef(v) == v.k = "obj"

\* JavaScript truthiness (the `!data` test of Whispr.wait): undefined, null
\* and 0 are falsy, every other number and every object is truthy.
Falsy(v) == v.k \in {"undef", "null"} \/ (v.k = "num" /\ v.n = 0)

\* `result === null || result === undefined`
Absent(v) == v.k \in {"undef", "null"}

\* A Map value over the keys of Keys: n[key] is the entry of key, absent
\* when it is NoEntry (in a map of values) or "-" (in a map of handles).
\* A Map of numbers or of handles is modelled by its content: safeClone
\* rebuilds the Map and returns numbers and class instances as they are.
Keys == {1, 2}
NoEntry == [k |-> "none", n |-> 0]
MapOf(f) == [k |-> "map", n |-> f]

(***************************************************************************)
(* The heap of plain objects {f: <number>, nested: <null or object>}.      *)
(* heap[i].used says whether object i is allocated.                        *)
(***************************************************************************)
FreeObj == [used |-> FALSE, f |-> 0, kid |-> 0]
EmptyHeap == [i \in ObjIds |-> FreeObj]
FreeIds(H) == {i \in ObjIds : ~H[i].used}
NewId(H) == CHOOSE i \in FreeIds(H) : \A j \in FreeIds(H) : i <= j

\* The objects reachable from value v (v itself and its nested object).
ReachIds(H, v) ==
    IF ~IsRef(v) THEN {}
    ELSE {v.n} \cup (IF H[v.n].kid = 0 THEN {} ELSE {H[v.n].kid})

\* The content of a value, without identities: what deep equality compares.
Deep(H, v) ==
    IF ~IsRef(v) THEN <<v.k, v.n>>
    ELSE IF H[v.n].kid = 0 THEN <<"obj", H[v.n].f>>
    ELSE <<"obj", H[v.n].f, H[H[v.n].kid].f>>

\* Mutant of SafeClone: a shallow copy, the nested object is shared.
SafeCloneShallow(H, v) ==
    IF ~IsRef(v) THEN [heap |-> H, val |-> v]
    ELSE [heap |-> [H EXCEPT ![NewId(H)] = [used |-> TRUE, f |-> H[v.n].f,
                                            kid |-> H[v.n].kid]],
          val |-> Ref(NewId(H))]

\* safeClone: primitives are returned as they are; a generic object is
\* rebuilt field by field, each field safeCloned.  Returns the new heap and
\* the clone.
RECURSIVE SafeClone(_, _)
SafeClone(H, v) ==
    IF ~IsRef(v) THEN [heap |-> H, val |-> v]
    ELSE LET o == H[v.n]
             id == NewId(H)
             H1 == [H EXCEPT ![id] = [used |-> TRUE, f |-> o.f, kid |-> 0]]
         IN IF o.kid = 0 THEN [heap |-> H1, val |-> Ref(id)]
            ELSE LET sub == SafeClone(H1, Ref(o.kid))
                 IN [heap |-> [sub.heap EXCEPT ![id].kid = sub.val.n],
                     val |-> Ref(id)]


(***************************************************************************)
(* Handles, listeners and combining functions.                             *)
(***************************************************************************)
Roots == {"a", "b"}
Derived == {"d1", "d2", "d3"}
\* The two cells of a WhisprMap: data (key -> member handle) and mappedData
\* (key -> member value).
MapCells == {"m", "mm"}
Handles == Roots \cup Derived \cup MapCells
NoH == "-"

\* A listener is a function value; two subscriptions of the same function
\* hold the same listener.  kind is what its body does, id tells two
\* functions of one kind apart, arg is what the closure captured (the
\* derived handle of a listener installed by from, the predicate of a
\* listener installed by wait).
L(kind, id, arg) == [kind |-> kind, id |-> id, arg |-> arg]
NoL == L("none", 0, NoH)
UserKinds == {"plain", "stop", "throw", "asyncStop", "asyncThrow", "writer"}
UserListeners == {L(k, 1, NoH) : k \in UserKinds}

\* The value a "writer" listener writes back into the cell that notified it
\* (it writes only when it is delivered another value, so it terminates).
WriterVal == Num(0)

\* Combining functions of derived handles (pure, synchronous).
Cbs == {"sum", "succ"}
RECURSIVE SumNums(_)
SumNums(vs) == IF vs = <<>> THEN 0 ELSE Head(vs).n + SumNums(Tail(vs))
Combine(f, vs) ==
    IF f = "sum" THEN Num(SumNums(vs) % (MaxNum + 1))
    ELSE Num((vs[1].n + 1) % (MaxNum + 1))

\* A combining function that raises when it is called.
RaisingCb == "raise"

\* Predicates handed to wait.  "id" is the one load() passes (data => data);
\* "isZero" yields a present result exactly on 0; "big" yields the value
\* when it is MaxNum.
Preds == {"id", "isZero", "big"}
Pred(p, v) ==
    CASE p = "id" -> v
      [] p = "isZero" -> IF v = Num(0) THEN Num(1) ELSE Null
      [] OTHER -> IF v = Num(MaxNum) THEN v ELSE Undef
Waiters == {1, 2}

(***************************************************************************)
(* State.                                                                  *)
(***************************************************************************)
VARIABLES
    exists,      \* exists[h]: handle h has been created
    data,        \* data[h]: Observable._data of h's cell
    listeners,   \* listeners[h]: Observable.listeners, in subscription order
    heap,        \* the objects values refer to
    pending,     \* bag of suspended listener invocations (awaited promises)
    held,        \* held[h]: the application keeps a strong reference to h
    collected,   \* collected[h]: the collector cleared the WeakRef to h
    finalized,   \* finalized[h]: the registry ran the callback registered for h
    onDieCalls,  \* onDieCalls[h]: calls of the caller-supplied onDie of h
    input,       \* input[d]: the source handles of derived handle d, in key order
    cb,          \* cb[d]: the combining function of derived handle d
    strongRefs,  \* Whispr.strongRefs: derivation key -> source handles
    promise,     \* promise[w]: the promise returned by the w-th wait call
    refs,        \* objects the application holds (built, written or read)
    caps,        \* unsubscribe capabilities the application holds
    op,          \* the last public call and what it returned
    trace        \* what the last call did, in order

vars == <<exists, data, listeners, heap, pending, held, collected, finalized,
          onDieCalls, input, cb, strongRefs, promise, refs, caps, op, trace>>

\* One entry of trace.  t is "call" (a listener is invoked with v, why says
\* whether by subscribe's immediate notification or by a write), "stop" (an
\* invocation completed with STOP), "fault" (an invocation raised and the
\* dispatcher caught it), "suspend" (the listener returned a promise), "cb"
\* (a combining function ran and returned v), "resolve" (wait called
\* resolve), "pred" (wait evaluated its predicate on v), "unsub" (a
\* listener invoked the unsubscribe function of l).
\* d is the content of v when the event happened.
Ev(t, h, l, v, why) == [t |-> t, h |-> h, l |-> l, v |-> v, why |-> why]

\* The last public call.
Op(name, h, l, v, ret) == [name |-> name, h |-> h, l |-> l, v |-> v, ret |-> ret]

\* The part of the state a dispatch reads and writes, as one record.
Cur == [data |-> data, listeners |-> listeners, heap |-> heap,
        pending |-> pending, promise |-> promise, input |-> input,
        cb |-> cb, trace |-> <<>>]

Log(S, e) ==
    [S EXCEPT !.trace = Append(@, [t |-> e.t, h |-> e.h, l |-> e.l, v |-> e.v,
                                   why |-> e.why, d |-> Deep(S.heap, e.v)])]

\* Promise resolution: the first resolve settles the promise, later ones do
\* nothing.
Resolve(S, w, v) ==
    IF S.promise[w].st = "pending"
    THEN [S EXCEPT !.promise[w] = [st |-> "resolved", v |-> v]]
    ELSE S

(***************************************************************************)
(* Observable (src/src/Observable.ts).                                     *)
(***************************************************************************)
RemoveAll(ls, l) == SelectSeq(ls, LAMBDA x : x # l)
Occ(ls, l) == Len(SelectSeq(ls, LAMBDA x : x = l))

\* unsubscribe(cb): listeners = listeners.filter(listener => listener !== cb)
Unsubscribe(S, h, l) == [S EXCEPT !.listeners[h] = RemoveAll(@, l)]

\* Mutant of GetValueArgs: the values the sources held when the call began.
GetValueArgsStale(S, d) == [i \in DOMAIN S.input[d] |-> data[S.input[d][i]]]

\* getValue of Whispr.from: reads the value getter of every source.  The
\* sources of a derived handle hold numbers, which safeClone returns as
\* they are.
GetValueArgs(S, d) == [i \in DOMAIN S.input[d] |-> S.data[S.input[d][i]]]

RECURSIVE ObservableSet(_, _, _), ForEach(_, _, _, _), Notify(_, _, _, _),
          Body(_, _, _, _), Setter(_, _, _)

\* set(data): _data = safeClone(data); listeners.forEach(notify); return true.
\* forEach walks the array that was this.listeners when it started:
\* unsubscribe replaces this.listeners by a filtered copy and leaves that
\* array as it was.
ObservableSet(S, h, v) ==
    LET c == SafeClone(S.heap, v)
        S1 == [S EXCEPT !.heap = c.heap, !.data[h] = c.val]
    IN ForEach(S1, h, S1.listeners[h], 1)

\* Mutant of ForEach: the listeners are notified last subscribed first.
RECURSIVE ForEachBackwards(_, _, _, _)
ForEachBackwards(S, h, ls, i) ==
    IF i > Len(ls) THEN S
    ELSE ForEachBackwards(Notify(S, h, ls[Len(ls) + 1 - i], "write"), h, ls, i + 1)

\* Mutant of ForEach: every listener is handed the value of this write; a
\* value a listener wrote meanwhile is put back.
RECURSIVE ForEachPinned(_, _, _, _)
ForEachPinned(S, h, ls, i) ==
    IF i > Len(ls) THEN S
    ELSE LET S1 == Notify(S, h, ls[i], "write")
         IN ForEachPinned([S1 EXCEPT !.data[h] = S.data[h]], h, ls, i + 1)

\* Mutant of ForEach: only the first listener is notified.
ForEachFirstOnly(S, h, ls, i) ==
    IF i > Len(ls) \/ i > 1 THEN S
    ELSE Notify(S, h, ls[i], "write")

ForEach(S, h, ls, i) ==
    IF i > Len(ls) THEN S
    ELSE ForEach(Notify(S, h, ls[i], "write"), h, ls, i + 1)

\* Mutant of Notify: the dispatch waits for the promise a listener returns.
NotifyAwaits(S, h, l, why) ==
    LET arg == S.data[h]
        R == Body(Log(S, Ev("call", h, l, arg, why)), h, l, arg)
    IN CASE R.res \in {"STOP", "promiseSTOP"} ->
              Unsubscribe(Log(R.S, Ev("stop", h, l, arg, why)), h, l)
         [] R.res \in {"throw", "promiseThrow"} ->
              Log(R.S, Ev("fault", h, l, arg, why))
         [] OTHER -> R.S

\* Mutant of Notify: a fault is treated as an implicit STOP.
NotifyFaultStops(S, h, l, why) ==
    LET arg == S.data[h]
        R == Body(Log(S, Ev("call", h, l, arg, why)), h, l, arg)
    IN CASE R.res \in {"STOP", "throw"} ->
              Unsubscribe(Log(R.S, Ev(IF R.res = "STOP" THEN "stop" ELSE "fault",
                                      h, l, arg, why)), h, l)
         [] R.res \in {"promiseSTOP", "promiseThrow"} ->
              [Log(R.S, Ev("suspend", h, l, arg, why)) EXCEPT
                  !.pending = @ (+) SetToBag({[h |-> h, l |-> l, res |-> R.res]})]
         [] OTHER -> R.S

\* notify(listener): invoke the listener with this._data; a promise is
\* awaited (the rest runs in Complete); STOP unsubscribes; a fault is
\* caught and logged.
Notify(S, h, l, why) ==
    LET arg == S.data[h]
        R == Body(Log(S, Ev("call", h, l, arg, why)), h, l, arg)
    IN CASE R.res = "STOP" ->
              Unsubscribe(Log(R.S, Ev("stop", h, l, arg, why)), h, l)
         [] R.res = "throw" -> Log(R.S, Ev("fault", h, l, arg, why))
         [] R.res \in {"promiseSTOP", "promiseThrow"} ->
              [Log(R.S, Ev("suspend", h, l, arg, why)) EXCEPT
                  !.pending = @ (+) SetToBag({[h |-> h, l |-> l, res |-> R.res]})]
         [] OTHER -> R.S

\* Mutant of Setter: the setter holds the handle strongly and always writes.
SetterNoDeref(S, h, v) == [S |-> ObservableSet(S, h, v), ret |-> TRUE]

\* The setter create returns: ref.deref()?.data.set(data) ?? false
Setter(S, h, v) ==
    IF collected[h] THEN [S |-> S, ret |-> FALSE]
    ELSE [S |-> ObservableSet(S, h, v), ret |-> TRUE]

\* Mutant of Refresh: the mapped value is left as it is.
RefreshSkips(S) == S

\* WhisprMap.refresh: a new Map of every key of this.data.value to its
\* item's value, handed to setMapped.
Refresh(S) ==
    LET items == S.data["m"].n
        toReturn == [key \in Keys |->
                        IF items[key] = "-" THEN NoEntry ELSE S.data[items[key]]]
    IN Setter(S, "mm", MapOf(toReturn)).S

\* What a listener's body does with the value it is handed, and how the
\* invocation ends.
Body(S, h, l, arg) ==
    CASE l.kind = "stop" -> [S |-> S, res |-> "STOP"]
      [] l.kind = "throw" -> [S |-> S, res |-> "throw"]
      [] l.kind = "asyncStop" -> [S |-> S, res |-> "promiseSTOP"]
      [] l.kind = "asyncThrow" -> [S |-> S, res |-> "promiseThrow"]
      [] l.kind = "writer" ->
           IF arg = WriterVal THEN [S |-> S, res |-> "void"]
           ELSE [S |-> Setter(S, h, WriterVal).S, res |-> "void"]
      [] l.kind = "mutate" ->
           IF IsRef(arg)
           THEN [S |-> [S EXCEPT !.heap[arg.n].f = 1 - @], res |-> "void"]
           ELSE [S |-> S, res |-> "void"]
      [] l.kind = "from" ->
           \* () => { set(getValue()) }
           LET v == Combine(S.cb[l.arg], GetValueArgs(S, l.arg))
               S1 == Log(S, Ev("cb", l.arg, l, v, "write"))
           IN [S |-> Setter(S1, l.arg, v).S, res |-> "void"]
      [] l.kind = "refresh" ->
           \* () => { this.refresh() }
           [S |-> Refresh(S), res |-> "void"]
      [] l.kind = "unsub" ->
           \* () => { unsubscribeOther() }: the listener invokes the
           \* unsubscribe function of the listener of kind l.arg
           LET other == L(l.arg, 1, NoH)
           IN [S |-> Unsubscribe(Log(S, Ev("unsub", h, other, arg, "write")),
                                 h, other),
               res |-> "void"]
      [] l.kind = "wait" ->
           \* if (!data) return; result = cb(data);
           \* if (result === null || result === undefined) return;
           \* resolve(result); return "STOP"
           IF Falsy(arg) THEN [S |-> S, res |-> "void"]
           ELSE LET r == Pred(l.arg, arg)
                    S1 == Log(S, Ev("pred", h, l, arg, "write"))
                IN IF Absent(r) THEN [S |-> S1, res |-> "void"]
                   ELSE [S |-> Resolve(Log(S1, Ev("resolve", h, l, r, "write")),
                                       l.id, r),
                         res |-> "STOP"]
      [] OTHER -> [S |-> S, res |-> "void"]

\* Mutant of Subscribe: the immediate flag is ignored.
SubscribeAlwaysNotifies(S, h, l, immediate) ==
    Notify([S EXCEPT !.listeners[h] = Append(@, l)], h, l, "imm")

\* subscribe(cb, immediate): listeners.push(cb); if (immediate) notify(cb)
Subscribe(S, h, l, immediate) ==
    LET S1 == [S EXCEPT !.listeners[h] = Append(@, l)]
    IN IF immediate THEN Notify(S1, h, l, "imm") ELSE S1


(***************************************************************************)
(* Reachability and the garbage collector.                                 *)
(***************************************************************************)
Range(f) == {f[x] : x \in DOMAIN f}

\* Mutant of Reachable: only what the application holds is reachable.
ReachableHeldOnly(h) == held[h]

\* Mutant of Reachable: a handle with subscribers is reachable too.
ReachableIfSubscribed(h) ==
    \/ held[h]
    \/ listeners[h] # <<>>
    \/ \E k \in DOMAIN strongRefs : h \in Range(strongRefs[k])
    \/ \E d \in Derived : exists[d] /\ ~finalized[d] /\ h \in Range(input[d])

\* A handle is strongly reachable when the application holds it, when it
\* is in an entry of the static strongRefs table, or when it is a source of
\* a derived handle whose registered callback has not run yet (the
\* FinalizationRegistry holds that callback, whose closure holds the
\* unsubscribe functions, the listeners and their input dictionary).
Reachable(h) ==
    \/ held[h]
    \/ \E k \in DOMAIN strongRefs : h \in Range(strongRefs[k])
    \/ \E d \in Derived : exists[d] /\ ~finalized[d] /\ h \in Range(input[d])

\* Alive: the WeakRef the setter holds still yields the handle.
Alive(h) == exists[h] /\ ~collected[h]

\* Objects no value of the program refers to any more are released.
Sweep(H, D, R) ==
    LET live == UNION ({ReachIds(H, D[h]) : h \in Handles}
                       \cup {ReachIds(H, Ref(i)) : i \in R})
    IN [i \in ObjIds |-> IF i \in live THEN H[i] ELSE FreeObj]

\* Object identities are only ever compared for equality, so the objects
\* that are left after a call are renumbered in a fixed order: those of the
\* stored values first, then those the application holds, by content.
HandleSeq == <<"a", "b", "d1", "d2", "d3", "m", "mm">>
ContentKey(H, i) == 3 * H[i].f + (IF H[i].kid = 0 THEN 0 ELSE 1 + H[H[i].kid].f)
RECURSIVE SortedIds(_, _)
SortedIds(H, R) ==
    IF R = {} THEN <<>>
    ELSE LET i == CHOOSE x \in R : \A y \in R :
                     \/ ContentKey(H, x) < ContentKey(H, y)
                     \/ ContentKey(H, x) = ContentKey(H, y) /\ x <= y
         IN <<i>> \o SortedIds(H, R \ {i})
\* The objects in their new order: each root followed by its nested object,
\* no object twice.
RECURSIVE Order(_, _, _)
Order(H, ids, done) ==
    IF ids = <<>> THEN done
    ELSE LET i == Head(ids)
         IN IF \E k \in DOMAIN done : done[k] = i
            THEN Order(H, Tail(ids), done)
            ELSE Order(H, (IF H[i].kid = 0 THEN <<>> ELSE <<H[i].kid>>) \o Tail(ids),
                       Append(done, i))
\* number[i] is the new identity of object i (0 when it has been released).
Numbering(H, D, R) ==
    LET stored == SelectSeq([k \in DOMAIN HandleSeq |-> D[HandleSeq[k]]], IsRef)
        Index(order) ==
            [i \in ObjIds |-> IF \E k \in DOMAIN order : order[k] = i
                              THEN CHOOSE k \in DOMAIN order : order[k] = i ELSE 0]
    IN CHOOSE number \in
          {Index(order) :
             order \in {Order(H, [k \in DOMAIN stored |-> stored[k].n]
                                   \o SortedIds(H, R), <<>>)}} : TRUE
MoveVal(number, v) == IF IsRef(v) THEN Ref(number[v.n]) ELSE v
MoveHeap(number, H) ==
    [j \in ObjIds |->
        IF \E i \in ObjIds : number[i] = j
        THEN LET i == CHOOSE x \in ObjIds : number[x] = j
             IN [used |-> TRUE, f |-> H[i].f,
                 kid |-> IF H[i].kid = 0 THEN 0 ELSE number[H[i].kid]]
        ELSE FreeObj]

\* The state after a call named o that left the dispatch state S and holds
\* the objects R.
Commit(S0, R, o) ==
    \E S \in {S0} :
    \E H \in {Sweep(S.heap, S.data, R)} :
    \E number \in {IF H = EmptyHeap THEN [i \in ObjIds |-> 0]
                   ELSE Numbering(H, S.data, R)} :
       /\ BagCardinality(S.pending) <= MaxPending
       /\ data' = [h \in Handles |-> MoveVal(number, S.data[h])]
       /\ listeners' = S.listeners
       /\ heap' = MoveHeap(number, H)
       /\ pending' = S.pending
       /\ promise' = S.promise
       /\ trace' = [k \in DOMAIN S.trace |->
                      [S.trace[k] EXCEPT !.v = MoveVal(number, @)]]
       /\ refs' = {number[i] : i \in R}
       /\ op' = [o EXCEPT !.v = MoveVal(number, @)]

(***************************************************************************)
(* The public calls.                                                       *)
(***************************************************************************)
\* The application calls the setter create returned for root handle h.
Write(h, v) ==
    /\ h \in Roots /\ exists[h]
    /\ Cardinality(FreeIds(heap)) >= Cardinality(ReachIds(heap, v))
    /\ LET R == Setter(Cur, h, v)
       IN Commit(R.S, refs, Op("set", h, NoL, v, R.ret))
    /\ UNCHANGED <<exists, held, collected, finalized, onDieCalls, input, cb,
                   strongRefs, caps>>

\* h.subscribe(l, immediate); keep says whether the application keeps the
\* unsubscribe function it gets back (as one it has not invoked yet).
DoSubscribe(h, l, immediate, keep) ==
    /\ exists[h] /\ held[h]
    /\ Len(listeners[h]) < MaxListeners
    /\ Commit(Subscribe(Cur, h, l, immediate), refs,
              Op(IF immediate THEN "subscribe" ELSE "subscribeLater",
                 h, l, Undef, TRUE))
    /\ caps' = IF keep THEN caps \cup {<<h, l, FALSE>>} ELSE caps
    /\ UNCHANGED <<exists, held, collected, finalized, onDieCalls, input, cb,
                   strongRefs>>

\* The application invokes an unsubscribe function it kept: c[1] is the
\* cell and c[2] the listener its closure holds; c[3] records that the
\* application has invoked this function before.
DoUnsubscribe(c) ==
    /\ c \in caps
    /\ Commit(Unsubscribe(Cur, c[1], c[2]), refs,
              Op(IF c[3] THEN "unsubscribeAgain" ELSE "unsubscribe",
                 c[1], c[2], Undef, TRUE))
    /\ caps' = (caps \ {c}) \cup {<<c[1], c[2], TRUE>>}
    /\ UNCHANGED <<exists, held, collected, finalized, onDieCalls, input, cb,
                   strongRefs>>

\* The promise a listener returned settles and notify's async body resumes:
\* a result of STOP unsubscribes the listener, a rejection is caught.
Complete(p) ==
    /\ BagIn(p, pending)
    /\ LET S0 == [Cur EXCEPT !.pending = @ (-) SetToBag({p})]
           S1 == IF p.res = "promiseSTOP"
                 THEN Unsubscribe(Log(S0, Ev("stop", p.h, p.l, Undef, "later")),
                                  p.h, p.l)
                 ELSE Log(S0, Ev("fault", p.h, p.l, Undef, "later"))
       IN Commit(S1, refs, Op("complete", p.h, p.l, Undef, TRUE))
    /\ UNCHANGED <<exists, held, collected, finalized, onDieCalls, input, cb,
                   strongRefs, caps>>

\* The application drops its reference to h.
Drop(h) ==
    /\ exists[h] /\ held[h]
    /\ held' = [held EXCEPT ![h] = FALSE]
    /\ op' = Op("drop", h, NoL, Undef, TRUE)
    /\ trace' = <<>>
    /\ UNCHANGED <<exists, data, listeners, heap, pending, collected, finalized,
                   onDieCalls, input, cb, strongRefs, promise, refs, caps>>

\* Mutant of Collect: the collector takes handles that are still referenced.
CollectAnything(h) ==
    /\ Alive(h)
    /\ collected' = [collected EXCEPT ![h] = TRUE]
    /\ op' = Op("collect", h, NoL, Undef, TRUE)
    /\ trace' = <<>>
    /\ UNCHANGED <<exists, data, listeners, heap, pending, held, finalized,
                   onDieCalls, input, cb, strongRefs, promise, refs, caps>>

\* The collector reclaims an unreachable handle: its WeakRef is cleared.
Collect(h) ==
    /\ Alive(h) /\ ~Reachable(h)
    /\ collected' = [collected EXCEPT ![h] = TRUE]
    /\ op' = Op("collect", h, NoL, Undef, TRUE)
    /\ trace' = <<>>
    /\ UNCHANGED <<exists, data, listeners, heap, pending, held, finalized,
                   onDieCalls, input, cb, strongRefs, promise, refs, caps>>

\* Mutant of UnsubscribeAll: the death callback unsubscribes from nothing.
UnsubscribeNone(S, d, i) == S

\* The onDie closure from hands to create: unsubscribe from every source,
\* delete the strongRefs entry, call the caller's onDie.
RECURSIVE UnsubscribeAll(_, _, _)
UnsubscribeAll(S, d, i) ==
    IF i > Len(input[d]) THEN S
    ELSE UnsubscribeAll(Unsubscribe(S, input[d][i], L("from", i, d)), d, i + 1)

\* Mutant of Finalize: the registry drops the registration of a collected
\* handle without calling the callback.
FinalizeSilent(h) ==
    /\ exists[h] /\ collected[h] /\ ~finalized[h]
    /\ finalized' = [finalized EXCEPT ![h] = TRUE]
    /\ LET S == [Cur EXCEPT !.data[h] = Undef, !.listeners[h] = <<>>]
       IN Commit(S, refs, Op("finalize", h, NoL, Undef, TRUE))
    /\ UNCHANGED <<exists, held, collected, input, cb, caps, strongRefs,
                   onDieCalls>>

\* Mutant of Finalize: the death callback leaves the strongRefs entry.
FinalizeKeepsEntry(h) ==
    /\ exists[h] /\ collected[h] /\ ~finalized[h]
    /\ finalized' = [finalized EXCEPT ![h] = TRUE]
    /\ LET S == [Cur EXCEPT !.data[h] = Undef, !.listeners[h] = <<>>]
       IN Commit(IF h \in Derived THEN UnsubscribeAll(S, h, 1) ELSE S, refs,
                 Op("finalize", h, NoL, Undef, TRUE))
    /\ onDieCalls' = [onDieCalls EXCEPT ![h] = @ + 1]
    /\ UNCHANGED <<exists, held, collected, input, cb, caps, strongRefs>>

\* The FinalizationRegistry calls the callback registered for a collected
\* handle; by then the handle's cell, with its value and its listener
\* array, is gone.
Finalize(h) ==
    /\ exists[h] /\ collected[h] /\ ~finalized[h]
    /\ finalized' = [finalized EXCEPT ![h] = TRUE]
    /\ LET S == [Cur EXCEPT !.data[h] = Undef, !.listeners[h] = <<>>]
       IN Commit(IF h \in Derived THEN UnsubscribeAll(S, h, 1) ELSE S, refs,
                 Op("finalize", h, NoL, Undef, TRUE))
    /\ strongRefs' = [k \in DOMAIN strongRefs \ {h} |-> strongRefs[k]]
    /\ onDieCalls' = [onDieCalls EXCEPT ![h] = @ + 1]
    /\ UNCHANGED <<exists, held, collected, input, cb, caps>>

\* from's forEach over Object.values(input): subscribe one listener per
\* source, with subscribe's default immediate = true.
RECURSIVE SubscribeAll(_, _, _)
SubscribeAll(S, d, i) ==
    IF i > Len(S.input[d]) THEN S
    ELSE SubscribeAll(Subscribe(S, S.input[d][i], L("from", i, d), TRUE), d, i + 1)

\* The derived handles are made, and their derivation keys allocated, in
\* this order; the key of d is d itself, and a from call that failed has
\* used up its key.
NextDerived(d) ==
    /\ d \in Derived /\ ~exists[d] /\ d \notin DOMAIN strongRefs
    /\ \A i \in 1..Len(HandleSeq), j \in 1..Len(HandleSeq) :
          (HandleSeq[i] \in Derived /\ HandleSeq[j] = d /\ i < j)
             => (exists[HandleSeq[i]] \/ HandleSeq[i] \in DOMAIN strongRefs)

\* Whispr.from(input, cb), the application passing the handles srcs (which
\* it holds) as the values of input and combining function f: the
\* strongRefs entry, the first getValue, create, then the subscriptions.
\* When cb raises in the first getValue the call ends there, with the
\* exception (ret = FALSE): create and the subscriptions are not reached.
From(d, srcs, f) ==
    /\ NextDerived(d)
    /\ \A i \in DOMAIN srcs : exists[srcs[i]] /\ held[srcs[i]]
    /\ \A h \in Handles : Len(listeners[h]) + Occ(srcs, h) <= MaxListeners
    /\ strongRefs' = [k \in DOMAIN strongRefs \cup {d} |->
                        IF k = d THEN srcs ELSE strongRefs[k]]
    /\ IF f = RaisingCb
       THEN /\ Commit(Log(Cur, Ev("cb", d, NoL, Undef, "init")), refs,
                      Op("from", d, NoL, Undef, FALSE))
            /\ UNCHANGED <<exists, held, input, cb>>
       ELSE /\ LET S0 == [Cur EXCEPT !.input[d] = srcs, !.cb[d] = f]
                   v == Combine(f, GetValueArgs(S0, d))
                   S1 == [Log(S0, Ev("cb", d, NoL, v, "init")) EXCEPT !.data[d] = v]
                   S2 == SubscribeAll(S1, d, 1)
               IN /\ Commit(S2, refs, Op("from", d, NoL, v, TRUE))
                  /\ input' = S2.input
                  /\ cb' = S2.cb
            /\ exists' = [exists EXCEPT ![d] = TRUE]
            /\ held' = [held EXCEPT ![d] = TRUE]
    /\ UNCHANGED <<collected, finalized, onDieCalls, caps>>

(***************************************************************************)
(* Specification Spec: one handle made by create, its setter, listeners    *)
(* of every kind, and the collector.                                       *)
(***************************************************************************)
\* create(arg) for the handles hs, which stored the clone v of arg; the
\* application holds every handle and, of the objects of heap H, those of R.
Created(hs, arg, v, H, R) ==
    /\ exists = [h \in Handles |-> h \in hs]
    /\ data = [h \in Handles |-> IF h \in hs THEN v ELSE Undef]
    /\ listeners = [h \in Handles |-> <<>>]
    /\ heap = H
    /\ pending = EmptyBag
    /\ held = [h \in Handles |-> h \in hs]
    /\ collected = [h \in Handles |-> FALSE]
    /\ finalized = [h \in Handles |-> FALSE]
    /\ onDieCalls = [h \in Handles |-> 0]
    /\ input = [h \in Handles |-> <<>>]
    /\ cb = [h \in Handles |-> "sum"]
    /\ strongRefs = <<>>
    /\ promise = [w \in Waiters |-> [st |-> "none", v |-> Undef]]
    /\ refs = R
    /\ caps = {}
    /\ op = Op("create", NoH, NoL, arg, TRUE)
    /\ trace = <<>>

Init == \E v \in Nums : Created({"a"}, v, SafeClone(EmptyHeap, v).val, EmptyHeap, {})

Next ==
    \/ \E v \in Nums : Write("a", v)
    \/ \E l \in UserListeners, i \in BOOLEAN : DoSubscribe("a", l, i, FALSE)
    \/ \E p \in BagToSet(pending) : Complete(p)
    \/ Drop("a")
    \/ Collect("a")
    \/ Finalize("a")

Spec == Init /\ [][Next]_vars


(***************************************************************************)
(* Reading the trace of a call.                                            *)
(***************************************************************************)
IsEv(e, t, h, l) == e.t = t /\ e.h = h /\ e.l = l
Has(tr, t, h, l) == \E i \in DOMAIN tr : IsEv(tr[i], t, h, l)
CallsOf(tr, h, l) == {i \in DOMAIN tr : IsEv(tr[i], "call", h, l)}

\* A listener of cell h wrote into h during the dispatch recorded in tr.
NestedWrite(tr, h) ==
    \E i \in DOMAIN tr : /\ tr[i].t = "call" /\ tr[i].h = h
                         /\ tr[i].l.kind = "writer" /\ tr[i].v # WriterVal

(***************************************************************************)
(* C1.  The setter returns true and stores the value whenever it is called *)
(* while the handle is Alive (a listener that writes during the dispatch   *)
(* may store its own value after it); once the handle is Dead every call   *)
(* returns false, changes no stored value, notifies no listener; a Dead    *)
(* handle never becomes Alive again.                                       *)
(***************************************************************************)
C1_SetterFollowsLiveness ==
    [][/\ \A h \in Handles : collected[h] => collected'[h]
       /\ op'.name = "set" =>
            IF Alive(op'.h)
            THEN /\ op'.ret
                 /\ \/ data'[op'.h] = op'.v
                    \/ NestedWrite(trace', op'.h) /\ data'[op'.h] = WriterVal
            ELSE /\ ~op'.ret
                 /\ data' = data /\ listeners' = listeners
                 /\ pending' = pending /\ trace' = <<>>]_vars

\* The setter was called on a Dead handle that still has listeners.
C1_Witness ==
    /\ op.name = "set" /\ ~op.ret
    /\ collected[op.h] /\ listeners[op.h] # <<>>

(***************************************************************************)
(* C4.  subscribe(l, immediate = true) invokes l exactly once with the     *)
(* current value during the call, before any notification a write causes;  *)
(* subscribe(l, immediate = false) invokes nothing, and nothing but a      *)
(* write (or an immediate subscribe) invokes a listener afterwards.        *)
(***************************************************************************)
C4_ImmediateOnce ==
    [][/\ op'.name = "subscribe" =>
            /\ Len(trace') >= 1
            /\ IsEv(trace'[1], "call", op'.h, op'.l)
            /\ trace'[1].why = "imm"
            /\ trace'[1].v = data[op'.h]
            /\ \A i \in DOMAIN trace' :
                  (i > 1 /\ trace'[i].t = "call") => trace'[i].why = "write"
       /\ op'.name = "subscribeLater" => trace' = <<>>
       /\ op'.name \notin {"subscribe", "set"} =>
            \A i \in DOMAIN trace' : trace'[i].t # "call"]_vars

\* An immediate subscribe whose listener was invoked once for the
\* subscription and again for a write made during the call.
C4_Witness ==
    /\ op.name = "subscribe"
    /\ trace[1].why = "imm"
    /\ \E i \in DOMAIN trace : i > 1 /\ IsEv(trace[i], "call", op.h, op.l)

(***************************************************************************)
(* C5.  After an invocation of a listener has completed with STOP, that    *)
(* cell never invokes the listener again, whatever writes follow (a write  *)
(* another listener makes during a dispatch included); the completion      *)
(* removes the listener, and every write still notifies every listener     *)
(* that is subscribed.  (Stated for a listener subscribed once, so that a  *)
(* second invocation cannot be that of a second subscription.)             *)
(***************************************************************************)
C5_StopIsFinal ==
    [][/\ \A i, j \in DOMAIN trace' :
            (i < j /\ trace'[i].t = "stop"
                   /\ Occ(listeners[trace'[i].h], trace'[i].l) = 1)
               => ~IsEv(trace'[j], "call", trace'[i].h, trace'[i].l)
       /\ \A i \in DOMAIN trace' :
            trace'[i].t = "stop" => Occ(listeners'[trace'[i].h], trace'[i].l) = 0
       /\ (op'.name = "set" /\ op'.ret) =>
            \A i \in DOMAIN listeners[op'.h] :
               Has(trace', "call", op'.h, listeners[op'.h][i])]_vars

(***************************************************************************)
(* C6.  A fault a listener raises (synchronously or after suspension) does *)
(* not reach the writer (the setter returns true), does not keep the       *)
(* remaining listeners of the dispatch from being invoked, and leaves the  *)
(* listener list as it is, so the next write invokes the listener again.   *)
(***************************************************************************)
C6_FaultIsolated ==
    [][/\ (op'.name = "set" /\ Alive(op'.h)) =>
            /\ op'.ret
            /\ \A i \in DOMAIN listeners[op'.h] :
                  Has(trace', "call", op'.h, listeners[op'.h][i])
       /\ \A i \in DOMAIN trace' :
            (trace'[i].t = "fault" /\ ~Has(trace', "stop", trace'[i].h, trace'[i].l))
               => Occ(listeners'[trace'[i].h], trace'[i].l)
                    = Occ(listeners[trace'[i].h], trace'[i].l)
                      + (IF op'.name \in {"subscribe", "subscribeLater"}
                            /\ op'.l = trace'[i].l THEN 1 ELSE 0)]_vars

\* A write during which a listener raised, a later listener of the same
\* dispatch was invoked all the same, and the setter returned true; the
\* faulting listener had raised on an earlier notification as well.
C6_Witness ==
    /\ op.name = "set" /\ op.ret
    /\ \E i, j \in DOMAIN trace :
          /\ i < j /\ trace[i].t = "fault" /\ trace[j].t = "call"
          /\ trace[j].l # trace[i].l
          /\ trace[i].l \in Range(listeners[op.h])


(***************************************************************************)
(* Specification SpecClone: one handle holding plain objects.  The         *)
(* application builds objects, writes them, reads the value, mutates the   *)
(* objects it holds, and subscribes listeners, one of which mutates the    *)
(* object it is handed.                                                    *)
(***************************************************************************)
\* The application builds {f: f, nested: null} (k < 0) or
\* {f: f, nested: {f: k, nested: null}}.
Build(H, f, k) ==
    LET id == NewId(H)
        H1 == [H EXCEPT ![id] = [used |-> TRUE, f |-> f, kid |-> 0]]
    IN IF k < 0 THEN [heap |-> H1, val |-> Ref(id)]
       ELSE [heap |-> [H1 EXCEPT ![id].kid = NewId(H1),
                                 ![NewId(H1)] = [used |-> TRUE, f |-> k, kid |-> 0]],
             val |-> Ref(id)]

NewObj(f, k) ==
    /\ Cardinality(refs) < MaxRefs
    /\ Cardinality(FreeIds(heap)) >= 2
    /\ LET b == Build(heap, f, k)
       IN Commit([Cur EXCEPT !.heap = b.heap], refs \cup {b.val.n},
                 Op("new", NoH, NoL, b.val, TRUE))
    /\ UNCHANGED <<exists, held, collected, finalized, onDieCalls, input, cb,
                   strongRefs, caps>>

\* get value(): return safeClone(this._data)
Read(h) ==
    /\ exists[h] /\ held[h]
    /\ Cardinality(refs) < MaxRefs
    /\ Cardinality(FreeIds(heap)) >= Cardinality(ReachIds(heap, data[h]))
    /\ LET c == SafeClone(heap, data[h])
       IN Commit([Cur EXCEPT !.heap = c.heap],
                 refs \cup (IF IsRef(c.val) THEN {c.val.n} ELSE {}),
                 Op("value", h, NoL, c.val, TRUE))
    /\ UNCHANGED <<exists, held, collected, finalized, onDieCalls, input, cb,
                   strongRefs, caps>>

\* The application assigns to a field of an object it holds: o.f (deep
\* FALSE) or o.nested.f (deep TRUE).
Mutate(i, deep) ==
    /\ i \in refs
    /\ deep => heap[i].kid # 0
    /\ Commit([Cur EXCEPT !.heap[IF deep THEN heap[i].kid ELSE i].f = 1 - @],
              refs, Op("mutate", NoH, NoL, Ref(i), TRUE))
    /\ UNCHANGED <<exists, held, collected, finalized, onDieCalls, input, cb,
                   strongRefs, caps>>

\* The application lets go of an object.
Forget(i) ==
    /\ i \in refs
    /\ Commit(Cur, refs \ {i}, Op("forget", NoH, NoL, Undef, TRUE))
    /\ UNCHANGED <<exists, held, collected, finalized, onDieCalls, input, cb,
                   strongRefs, caps>>

CloneListeners == {L("plain", 1, NoH), L("mutate", 1, NoH)}

\* create(o) for an object o the application built and keeps.
InitClone ==
    \E f \in 0..1, k \in -1..1 :
       LET b == Build(EmptyHeap, f, k)
           c == SafeClone(b.heap, b.val)
       IN Created({"a"}, b.val, c.val, c.heap, {b.val.n})

NextClone ==
    \/ \E f \in 0..1, k \in -1..1 : NewObj(f, k)
    \/ \E i \in refs : Write("a", Ref(i))
    \/ Read("a")
    \/ \E i \in refs, deep \in BOOLEAN : Mutate(i, deep)
    \/ \E i \in refs : Forget(i)
    \/ \E l \in CloneListeners, i \in BOOLEAN : DoSubscribe("a", l, i, FALSE)

SpecClone == InitClone /\ [][NextClone]_vars

\* The objects the application holds, nested ones included.
HeldIds == UNION {ReachIds(heap, Ref(i)) : i \in refs}
MutatorRan(tr) == \E i \in DOMAIN tr : tr[i].t = "call" /\ tr[i].l.kind = "mutate"

(***************************************************************************)
(* C2.  The stored value never shares an object with a value passed to     *)
(* write or create, nor with a value returned by read.  Right after        *)
(* write(v) the stored content equals that of v (unless a listener         *)
(* assigned to the object it was handed during the dispatch), a read       *)
(* returns the stored content in fresh objects, and neither a read nor an  *)
(* assignment to a written or read object changes the stored content.      *)
(***************************************************************************)
C2_NoAliasing ==
    /\ [](/\ \A h \in Handles : ReachIds(heap, data[h]) \cap HeldIds = {}
          /\ (op.name = "set" /\ op.ret /\ ~MutatorRan(trace)) =>
                Deep(heap, data[op.h]) = Deep(heap, op.v)
          /\ op.name = "value" =>
                /\ Deep(heap, op.v) = Deep(heap, data[op.h])
                /\ IsRef(op.v) => op.v # data[op.h] /\ op.v.n \in refs)
    /\ [][op'.name \in {"value", "mutate", "new", "forget"} =>
             \A h \in Handles : Deep(heap', data'[h]) = Deep(heap, data[h])]_vars

\* The application wrote an object with a nested object, read the value
\* back, and then assigned to the nested object of what it had read.
C2_Witness ==
    /\ op.name = "mutate"
    /\ heap[op.v.n].kid # 0
    /\ Deep(heap, op.v) # Deep(heap, data["a"])
    /\ Cardinality(refs) = 2

(***************************************************************************)
(* C3.  What a listener is handed is a defensive clone, not the stored     *)
(* object: a listener that assigns to the object it receives changes       *)
(* neither what a later read returns nor what the next listener of the     *)
(* same dispatch is handed.                                                *)
(***************************************************************************)
C3_ListenerGetsClone ==
    [][/\ op'.name \in {"subscribe", "subscribeLater"} =>
            Deep(heap', data'[op'.h]) = Deep(heap, data[op'.h])
       /\ (op'.name = "set" /\ op'.ret) =>
            /\ Deep(heap', data'[op'.h]) = Deep(heap', op'.v)
            /\ \A i \in DOMAIN trace' :
                  trace'[i].t = "call" => trace'[i].d = Deep(heap', op'.v)]_vars


(***************************************************************************)
(* Specification SpecWait: one handle holding undefined, null or a number, *)
(* its setter, and wait / load calls.                                      *)
(***************************************************************************)
\* h.wait(p), the w-th wait call: new Promise(resolve => this.subscribe(...))
\* with the default immediate = true.  load() is wait(data => data).
Wait(h, w, p, name) ==
    /\ exists[h] /\ held[h]
    /\ promise[w].st = "none"
    /\ Len(listeners[h]) < MaxListeners
    /\ Commit(Subscribe([Cur EXCEPT !.promise[w].st = "pending"],
                        h, L("wait", w, p), TRUE),
              refs, Op(name, h, L("wait", w, p), Undef, TRUE))
    /\ UNCHANGED <<exists, held, collected, finalized, onDieCalls, input, cb,
                   strongRefs, caps>>

Load(h, w) == Wait(h, w, "id", "load")

InitWait == \E v \in Prims : Created({"a"}, v, SafeClone(EmptyHeap, v).val, EmptyHeap, {})

NextWait ==
    \/ \E v \in Prims : Write("a", v)
    \/ \E w \in Waiters, p \in Preds \ {"id"} : Wait("a", w, p, "wait")
    \/ \E w \in Waiters : Load("a", w)

SpecWait == InitWait /\ [][NextWait]_vars

\* The values delivered to the listener of the w-th wait call during the
\* last call, in order.
Delivered(tr, w) ==
    SelectSeq(tr, LAMBDA e : e.t = "call" /\ e.l.kind = "wait" /\ e.l.id = w)

(***************************************************************************)
(* C7.  wait(predicate) resolves exactly once, with the predicate's result *)
(* on the first delivered value (the current value at call time, then each *)
(* written value) for which the predicate yields a result other than null  *)
(* and undefined; it stays pending while no delivered value does.          *)
(***************************************************************************)
C7_WaitFirstMatch ==
    [][\A w \in Waiters :
         /\ promise[w].st = "resolved" => promise'[w] = promise[w]
         /\ promise[w].st # "resolved" =>
              LET ds == Delivered(trace', w)
                  hits == {i \in DOMAIN ds : ~Absent(Pred(ds[i].l.arg, ds[i].v))}
              IN IF hits = {} THEN promise'[w].st # "resolved"
                 ELSE LET i == CHOOSE x \in hits : \A y \in hits : x <= y
                      IN promise'[w] = [st |-> "resolved",
                                        v |-> Pred(ds[i].l.arg, ds[i].v)]]_vars

(***************************************************************************)
(* C8.  load() resolves with the first delivered value that is neither     *)
(* null nor undefined: the current value when it is one, else the first    *)
(* such value written afterwards; every other value counts as present.     *)
(***************************************************************************)
C8_LoadFirstPresent ==
    [][\A w \in Waiters :
         \A i \in DOMAIN trace' :
            (/\ promise[w].st # "resolved"
             /\ IsEv(trace'[i], "call", trace'[i].h, L("wait", w, "id"))
             /\ \A j \in 1..(i - 1) :
                   IsEv(trace'[j], "call", trace'[i].h, L("wait", w, "id"))
                      => trace'[j].v \in {Null, Undef})
            => IF trace'[i].v \in {Null, Undef}
               THEN promise'[w].st = "pending"
               ELSE promise'[w] = [st |-> "resolved", v |-> trace'[i].v]]_vars


(***************************************************************************)
(* Specification SpecFrom: two root handles holding numbers, their         *)
(* setters, and derived handles made by from over the handles the          *)
(* application holds.                                                      *)
(***************************************************************************)
\* The input dictionaries the application passes to from: one source, or
\* two different sources with the older handle under the first key.
Older(x, y) ==
    \E i \in 1..Len(HandleSeq), j \in 1..Len(HandleSeq) :
        i < j /\ HandleSeq[i] = x /\ HandleSeq[j] = y
SourceLists ==
    {<<x>> : x \in Handles}
       \cup {<<p[1], p[2]>> : p \in {q \in Handles \X Handles : Older(q[1], q[2])}}

\* The combining function the application passes: the successor of the
\* one source (as transform does), the sum of two.
CbFor(srcs) == IF Len(srcs) = 1 THEN "succ" ELSE "sum"

InitFrom ==
    \E v \in Nums : Created(Roots, v, SafeClone(EmptyHeap, v).val, EmptyHeap, {})

NextFrom ==
    \/ \E h \in Roots, v \in Nums : Write(h, v)
    \/ \E d \in Derived, srcs \in SourceLists : From(d, srcs, CbFor(srcs))

SpecFrom == InitFrom /\ [][NextFrom]_vars

\* The value d's combining function yields on the stored values D.
Combined(D, d) == Combine(cb[d], [i \in DOMAIN input[d] |-> D[input[d][i]]])

\* The runs of d's combining function recorded in tr.
Recombinations(tr, d) == {i \in DOMAIN tr : tr[i].t = "cb" /\ tr[i].h = d}

(***************************************************************************)
(* C9.  For a derived handle made by from over two root sources: its       *)
(* initial value is the combining function applied to the sources' values  *)
(* at the call; a write to one source alone runs the combining function    *)
(* once, on the written value and the other source's unchanged value, and  *)
(* stores the result; after a write to the first source followed at once   *)
(* by a write to the second, two recombinations have run and the derived   *)
(* value is that of both written values.                                   *)
(***************************************************************************)
C9_Recombines ==
    [][/\ op'.name = "from" =>
            /\ \A h \in Roots : data'[h] = data[h]
            /\ data'[op'.h] =
                  Combine(cb'[op'.h], [i \in DOMAIN input'[op'.h] |->
                                          data[input'[op'.h][i]]])
       /\ op'.name = "set" =>
            \A d \in Derived :
               (exists[d] /\ Range(input[d]) = Roots /\ Len(input[d]) = 2) =>
                  /\ data'[op'.h] = op'.v
                  /\ \A h \in Roots \ {op'.h} : data'[h] = data[h]
                  /\ Cardinality(Recombinations(trace', d)) = 1
                  /\ \A i \in Recombinations(trace', d) : trace'[i].v = data'[d]
                  /\ data'[d] = Combine(cb[d], [i \in 1..2 |-> data'[input[d][i]]])
                  /\ (op.name = "set" /\ op.h = input[d][1] /\ op'.h = input[d][2]) =>
                        /\ Cardinality(Recombinations(trace, d)) = 1
                        /\ data'[d] = Combine(cb[d], <<op.v, op'.v>>)]_vars

C9_Witness ==
    /\ op.name = "set" /\ op.h = "b" /\ op.v = Num(MaxNum)
    /\ exists["d1"] /\ input["d1"] = <<"a", "b">>
    /\ data["a"] = Num(1)
    /\ Cardinality(Recombinations(trace, "d1")) = 1
    /\ data["d1"] = Combine("sum", <<Num(1), Num(MaxNum)>>)

(***************************************************************************)
(* Specification SpecGraph: one root handle, its setter, the derived       *)
(* handles made by from over the handles the application holds (chains     *)
(* and diamonds included), and the collector taking the derived handles    *)
(* the application dropped.                                                *)
(***************************************************************************)
InitGraph ==
    \E v \in Nums : Created({"a"}, v, SafeClone(EmptyHeap, v).val, EmptyHeap, {})

NextGraph ==
    \/ \E v \in Nums : Write("a", v)
    \/ \E d \in Derived, srcs \in SourceLists : From(d, srcs, CbFor(srcs))
    \/ \E d \in Derived : Drop(d)
    \/ \E d \in Derived : Collect(d)
    \/ \E d \in Derived : Finalize(d)

SpecGraph == InitGraph /\ [][NextGraph]_vars

(***************************************************************************)
(* C10.  In any acyclic graph of derived handles, whenever a setter call   *)
(* on a root handle has returned, the value of every Alive derived handle  *)
(* is its combining function applied to the current values of its sources. *)
(***************************************************************************)
C10_GraphConsistent ==
    (op.name = "set" /\ op.h \in Roots) =>
        \A d \in Derived : Alive(d) => data[d] = Combined(data, d)

\* A diamond: d1 and d2 over a, d3 over d1 and d2; the write reached d3
\* twice, once through each side.
C10_Witness ==
    /\ op.name = "set" /\ op.h = "a" /\ op.v = Num(1)
    /\ \A d \in Derived : Alive(d)
    /\ input["d1"] = <<"a">> /\ input["d2"] = <<"a">>
    /\ input["d3"] = <<"d1", "d2">>
    /\ Cardinality(Recombinations(trace, "d3")) = 2
    /\ data["d3"] = Combined(data, "d3")

\* The listeners from installed for derived handle d.
FromListeners(d) == {L("from", i, d) : i \in 1..2}

(***************************************************************************)
(* C11.  When a derived handle dies, its death callback removes the        *)
(* derived handle's listener from every source's listener list, removes    *)
(* the strongRefs entry of its derivation key and invokes the caller's     *)
(* onDie; once that callback has run, no write to any source runs the      *)
(* combining function again.                                               *)
(***************************************************************************)
C11_DeathUnsubscribes ==
    /\ [][op'.name = "finalize" =>
             /\ \A h \in Handles, l \in FromListeners(op'.h) :
                   Occ(listeners'[h], l) = 0
             /\ op'.h \notin DOMAIN strongRefs'
             /\ onDieCalls'[op'.h] = onDieCalls[op'.h] + 1]_vars
    /\ [](\A d \in Derived : finalized[d] =>
             /\ Recombinations(trace, d) = {}
             /\ \A h \in Handles, l \in FromListeners(d) : Occ(listeners[h], l) = 0
             /\ d \notin DOMAIN strongRefs)

\* A write to a source of a derived handle whose death callback has run,
\* which still reached another derived handle.
C11_Witness ==
    /\ op.name = "set" /\ op.ret
    /\ \E d \in Derived :
          /\ finalized[d] /\ op.h \in Range(input[d]) /\ onDieCalls[d] = 1
          /\ \E e \in Derived \ {d} : Recombinations(trace, e) # {}

(***************************************************************************)
(* C12 as stated.  In every reachable state strongRefs holds an entry for  *)
(* a derivation key if and only if the derived handle of that key is       *)
(* Alive.                                                                  *)
(***************************************************************************)
C12_EntryIffAlive ==
    \A d \in Derived : (d \in DOMAIN strongRefs) <=> Alive(d)

(***************************************************************************)
(* C12 amended.  strongRefs holds an entry for a derivation key, with the  *)
(* sources of the derived handle, from the from call until the death       *)
(* callback of the derived handle has run: every Alive derived handle has  *)
(* its entry, an entry is removed only by the death callback of a handle   *)
(* that was collected (so never while the handle is reachable), and a Dead *)
(* handle keeps its entry until that callback runs.                        *)
(***************************************************************************)
C12_EntryUntilCallback ==
    /\ [](\A d \in Derived :
             /\ (d \in DOMAIN strongRefs) <=> (exists[d] /\ ~finalized[d])
             /\ Alive(d) => d \in DOMAIN strongRefs /\ strongRefs[d] = input[d])
    /\ [][\A d \in DOMAIN strongRefs :
             d \notin DOMAIN strongRefs' =>
                /\ collected[d] /\ ~Reachable(d)
                /\ op'.name = "finalize" /\ op'.h = d]_vars

\* A derived handle that is Dead while its death callback has not run yet:
\* its entry is still there, and a source was written meanwhile.
C12_Witness ==
    \E d \in Derived :
       /\ collected[d] /\ ~finalized[d] /\ d \in DOMAIN strongRefs
       /\ op.name = "set" /\ op.h \in Range(strongRefs[d])

(***************************************************************************)
(* Specification SpecGC: SpecGraph with a root handle the application may  *)
(* drop too (it keeps the setter).  SpecChain is the same for derivation   *)
(* chains, and SpecChainFair is SpecChain under a collector that           *)
(* eventually takes what stays unreachable and a registry that eventually  *)
(* runs the callback of what was collected.                                *)
(***************************************************************************)
NextGC ==
    \/ \E v \in Nums : Write("a", v)
    \/ \E d \in Derived, srcs \in SourceLists : From(d, srcs, CbFor(srcs))
    \/ \E h \in Handles : Drop(h)
    \/ \E h \in Handles : Collect(h)
    \/ \E h \in Handles : Finalize(h)

SpecGC == InitGraph /\ [][NextGC]_vars

\* Derivation chains: every derived handle has one source (as transform
\* makes them).
ChainLists == {<<x>> : x \in Handles}

NextChain ==
    \/ \E v \in Nums : Write("a", v)
    \/ \E d \in Derived, srcs \in ChainLists : From(d, srcs, CbFor(srcs))
    \/ \E h \in Handles : Drop(h)
    \/ \E h \in Handles : Collect(h)
    \/ \E h \in Handles : Finalize(h)

SpecChain == InitGraph /\ [][NextChain]_vars

SpecChainFair ==
    /\ SpecChain
    /\ \A h \in Handles : WF_vars(Collect(h)) /\ WF_vars(Finalize(h))

\* The handles upstream of h: its sources and, transitively, theirs.
RECURSIVE UpstreamN(_, _)
UpstreamN(h, n) ==
    IF n = 0 THEN {}
    ELSE Range(input[h]) \cup UNION {UpstreamN(s, n - 1) : s \in Range(input[h])}
Upstream(h) == UpstreamN(h, Cardinality(Derived))

(***************************************************************************)
(* C13.  While the terminal handle of a derivation chain is Alive, every   *)
(* handle upstream of it stays Alive, even when the application holds      *)
(* none of them, and a write to a root source still reaches the terminal   *)
(* handle.                                                                 *)
(***************************************************************************)
C13_ChainKeptAlive ==
    /\ [](\A d \in Derived : Alive(d) => \A h \in Upstream(d) : Alive(h))
    /\ [][op'.name = "set" =>
            \A d \in Derived :
               (Alive(d) /\ op'.h \in Upstream(d)) =>
                  /\ op'.ret
                  /\ Recombinations(trace', d) # {}
                  /\ data'[d] = Combined(data', d)]_vars

\* A chain a -> d1 -> d2 of which the application holds the end only, and
\* a write to a that reached it.
C13_Witness ==
    /\ input["d1"] = <<"a">> /\ input["d2"] = <<"d1">>
    /\ held["d2"] /\ ~held["d1"] /\ ~held["a"]
    /\ op.name = "set" /\ op.h = "a" /\ op.ret
    /\ Recombinations(trace, "d2") # {}
    /\ data["d2"] = Combine("succ", <<Combine("succ", <<op.v>>)>>)

\* Nothing retains derived handle d any more: the application holds neither
\* d nor any derived handle downstream of it.
Abandoned(d) ==
    /\ exists[d] /\ ~held[d]
    /\ \A e \in Derived : (exists[e] /\ d \in Upstream(e)) => ~held[e]

\* d is Dead, its strongRefs entry is removed and none of its listeners is
\* left in a listener list.
Gone(d) ==
    /\ collected[d] /\ finalized[d]
    /\ d \notin DOMAIN strongRefs
    /\ \A h \in Handles, l \in FromListeners(d) : Occ(listeners[h], l) = 0

(***************************************************************************)
(* C14.  When the terminal handle of a derivation chain becomes            *)
(* unreachable and nothing else retains the intermediate derived handles,  *)
(* then under a fair collector eventually every derived handle of the      *)
(* chain is Dead, its strongRefs entry is removed and no listener the      *)
(* chain installed remains in a source's listener list.                    *)
(***************************************************************************)
C14_ChainTornDown ==
    \A d \in Derived : Abandoned(d) ~> Gone(d)

\* The chain a -> d1 -> d2 after its teardown.
C14_Witness ==
    /\ input["d1"] = <<"a">> /\ input["d2"] = <<"d1">>
    /\ Gone("d1") /\ Gone("d2")
    /\ held["a"] /\ \A l \in FromListeners("d1") : Occ(listeners["a"], l) = 0

C16_OnDieAfterUnreachable ==
    /\ [][\A h \in Handles :
             onDieCalls'[h] # onDieCalls[h] =>
                ~Reachable(h) /\ collected[h] /\ onDieCalls'[h] = onDieCalls[h] + 1]_vars
    /\ [](\A h \in Handles : onDieCalls[h] > 0 => ~Reachable(h) /\ ~Alive(h))
    /\ \A h \in Handles : (exists[h] /\ ~Reachable(h)) ~> (onDieCalls[h] >= 1)

\* The callback of root handle a, which the application had dropped, has
\* just been invoked.
C16_Witness ==
    /\ op.name = "finalize" /\ op.h = "a"
    /\ onDieCalls["a"] = 1 /\ ~held["a"] /\ collected["a"]

\* The listeners of cell h invoked during the dispatch recorded in tr, in
\* the order of their invocation, and the first invocation of l among them.
Invoked(tr, h) ==
    LET calls == SelectSeq(tr, LAMBDA e : e.t = "call" /\ e.h = h)
    IN [i \in DOMAIN calls |-> calls[i].l]
FirstCall(ls, l) == CHOOSE i \in DOMAIN ls : ls[i] = l /\ \A j \in 1..(i - 1) : ls[j] # l

(***************************************************************************)
(* C17.  For every write, the listeners are invoked in the order in which  *)
(* they were subscribed: the invocations are the listener list in its      *)
(* order, and when a listener writes during the dispatch every listener    *)
(* is still first invoked before the listeners subscribed after it.        *)
(***************************************************************************)
C17_SubscriptionOrder ==
    [][(op'.name = "set" /\ op'.ret) =>
          LET ls == listeners[op'.h]
              inv == Invoked(trace', op'.h)
          IN /\ ~NestedWrite(trace', op'.h) => inv = ls
             /\ \A i \in DOMAIN ls : \E k \in DOMAIN inv : inv[k] = ls[i]
             /\ \A i \in DOMAIN ls, j \in DOMAIN ls :
                   (i < j /\ ls[i] # ls[j] /\ \A k \in 1..(i - 1) : ls[k] # ls[j]) =>
                      FirstCall(inv, ls[i]) < FirstCall(inv, ls[j])]_vars

\* A write that invoked two different listeners, the one subscribed first
\* being a listener that stops.
C17_Witness ==
    /\ op.name = "set" /\ op.ret
    /\ Invoked(trace, op.h) = <<L("stop", 1, NoH), L("plain", 1, NoH)>>
    /\ listeners[op.h] = <<L("plain", 1, NoH)>>

\* Listeners that return a promise, and the suspended invocation of l.
Suspends(l) == l.kind \in {"asyncStop", "asyncThrow"}
Suspended(h, l) ==
    [h |-> h, l |-> l,
     res |-> IF l.kind = "asyncStop" THEN "promiseSTOP" ELSE "promiseThrow"]

(***************************************************************************)
(* C18.  When write returns, the invocation of every listener registered   *)
(* at the start of the write has been begun, and write (like subscribe     *)
(* with immediate = true) returns without waiting for a suspended listener *)
(* to complete: the invocation is left pending, its listener is still      *)
(* subscribed, and the listeners after it were invoked all the same.       *)
(***************************************************************************)
C18_FireAndForget ==
    [][/\ (op'.name = "set" /\ op'.ret) =>
            \A i \in DOMAIN listeners[op'.h] :
               CallsOf(trace', op'.h, listeners[op'.h][i]) # {}
       /\ op'.name \in {"set", "subscribe"} =>
            \A k \in DOMAIN trace' :
               (trace'[k].t = "call" /\ Suspends(trace'[k].l)) =>
                  LET l == trace'[k].l
                      h == trace'[k].h
                  IN /\ k < Len(trace') /\ IsEv(trace'[k + 1], "suspend", h, l)
                     /\ ~Has(trace', "stop", h, l) /\ ~Has(trace', "fault", h, l)
                     /\ Occ(listeners'[h], l) > 0
                     /\ CopiesIn(Suspended(h, l), pending')
                           = CopiesIn(Suspended(h, l), pending)
                                + Cardinality(CallsOf(trace', h, l))]_vars

\* A write that found an invocation still suspended from before, left a
\* second one suspended, and invoked the listener subscribed after.
C18_Witness ==
    /\ op.name = "set" /\ op.ret
    /\ Invoked(trace, op.h) = <<L("asyncStop", 1, NoH), L("plain", 1, NoH)>>
    /\ CopiesIn(Suspended(op.h, L("asyncStop", 1, NoH)), pending) = 2
    /\ listeners[op.h] = <<L("asyncStop", 1, NoH), L("plain", 1, NoH)>>

(***************************************************************************)
(* Specification SpecTransform: root handle a, d1 = a.transform(f) and     *)
(* d2 = from({self: a}, f) side by side, subscribers on both, writes to a. *)
(***************************************************************************)
\* Mutant of Transform: the derived handle is made from the current value
\* and never subscribed to its source.
TransformDetached(d, h, f) ==
    /\ NextDerived(d)
    /\ exists[h] /\ held[h]
    /\ LET S0 == [Cur EXCEPT !.input[d] = <<h>>, !.cb[d] = f]
           v == Combine(f, GetValueArgs(S0, d))
           S1 == [Log(S0, Ev("cb", d, NoL, v, "init")) EXCEPT !.data[d] = v]
       IN /\ Commit(S1, refs, Op("from", d, NoL, v, TRUE))
          /\ input' = S1.input
          /\ cb' = S1.cb
    /\ exists' = [exists EXCEPT ![d] = TRUE]
    /\ held' = [held EXCEPT ![d] = TRUE]
    /\ strongRefs' = [k \in DOMAIN strongRefs \cup {d} |->
                        IF k = d THEN <<h>> ELSE strongRefs[k]]
    /\ UNCHANGED <<collected, finalized, onDieCalls, caps>>

\* h.transform(f): return Whispr.from({ self: this }, ({ self }) => f(self))
Transform(d, h, f) == From(d, <<h>>, f)

NextTransform ==
    \/ \E v \in Nums : Write("a", v)
    \/ Transform("d1", "a", "succ")
    \/ From("d2", <<"a">>, "succ")
    \/ \E d \in {"d1", "d2"}, i \in BOOLEAN :
          DoSubscribe(d, L("plain", 1, NoH), i, FALSE)

SpecTransform == InitGraph /\ [][NextTransform]_vars

\* What the subscribers of cell h were delivered during the dispatch
\* recorded in tr: listener and value, in order.
Deliveries(tr, h) ==
    LET calls == SelectSeq(tr, LAMBDA e : e.t = "call" /\ e.h = h)
    IN [i \in DOMAIN calls |-> <<calls[i].l, calls[i].v>>]

(***************************************************************************)
(* C19.  h.transform(f) is observationally equivalent to                   *)
(* from({self: h}, v => f(v.self)): after their creation and after every   *)
(* write to h both derived handles hold the same value, and subscribers    *)
(* subscribed alike are delivered the same sequence of notifications.      *)
(***************************************************************************)
C19_TransformIsFrom ==
    /\ []((exists["d1"] /\ exists["d2"]) =>
             /\ data["d1"] = data["d2"]
             /\ input["d1"] = input["d2"] /\ cb["d1"] = cb["d2"])
    /\ [][(op'.name = "set" /\ exists["d1"] /\ exists["d2"]) =>
             /\ data'["d1"] = Combine("succ", <<op'.v>>)
             /\ data'["d2"] = Combine("succ", <<op'.v>>)
             /\ Cardinality(Recombinations(trace', "d1"))
                   = Cardinality(Recombinations(trace', "d2"))
             /\ listeners["d1"] = listeners["d2"] =>
                   Deliveries(trace', "d1") = Deliveries(trace', "d2")]_vars

\* A write that both derived handles passed on to two subscribers each.
C19_Witness ==
    /\ op.name = "set" /\ op.v = Num(1)
    /\ exists["d1"] /\ exists["d2"]
    /\ Len(Deliveries(trace, "d1")) = 2
    /\ Deliveries(trace, "d1") = Deliveries(trace, "d2")
    /\ data["d1"] = Num(2)

(***************************************************************************)
(* WhisprMap (src/src/WhisprMap.ts) and specification SpecMap: a map over  *)
(* the member handles a and b, its set / delete mutations, the members'    *)
(* setters and subscribers of the map.                                     *)
(***************************************************************************)
RefreshListener == L("refresh", 0, NoH)

\* The arguments (key, force) of a set call, as recorded in op.
KeyArg(key, force) == [k |-> IF force THEN "keyForce" ELSE "key", n |-> key]

\* Mutant of MapSet: the key is never checked, set always stores.
MapSetUnchecked(key, h, force) ==
    /\ h \in Roots /\ exists[h] /\ held[h]
    /\ Len(listeners[h]) < MaxListeners
    /\ LET tmp == [data["m"].n EXCEPT ![key] = h]
           S1 == Setter(Cur, "m", MapOf(tmp)).S
           S2 == Subscribe(S1, h, RefreshListener, TRUE)
       IN Commit(S2, refs, Op("mapSet", h, NoL, KeyArg(key, force), TRUE))
    /\ UNCHANGED <<exists, held, collected, finalized, onDieCalls, input, cb,
                   strongRefs, caps>>

\* WhisprMap.set(key, value, force): throws when the key exists and force
\* is not given (ret = FALSE); else stores the extended map through setData
\* and subscribes a refreshing listener to the member, immediately.
MapSet(key, h, force) ==
    /\ h \in Roots /\ exists[h] /\ held[h]
    /\ IF data["m"].n[key] # NoH /\ ~force
       THEN Commit(Cur, refs, Op("mapSet", h, NoL, KeyArg(key, force), FALSE))
       ELSE /\ Len(listeners[h]) < MaxListeners
            /\ LET tmp == [data["m"].n EXCEPT ![key] = h]
                   S1 == Setter(Cur, "m", MapOf(tmp)).S
                   S2 == Subscribe(S1, h, RefreshListener, TRUE)
               IN Commit(S2, refs, Op("mapSet", h, NoL, KeyArg(key, force), TRUE))
    /\ UNCHANGED <<exists, held, collected, finalized, onDieCalls, input, cb,
                   strongRefs, caps>>

\* Mutant of MapDelete: the reduced map is stored even when the key was
\* not in the map.
MapDeleteAlwaysStores(key) ==
    /\ exists["m"]
    /\ LET tmp == [data["m"].n EXCEPT ![key] = NoH]
       IN Commit(Setter(Cur, "m", MapOf(tmp)).S, refs,
                 Op("mapDelete", "m", NoL, Num(key), data["m"].n[key] # NoH))
    /\ UNCHANGED <<exists, held, collected, finalized, onDieCalls, input, cb,
                   strongRefs, caps>>

\* WhisprMap.delete(key): nothing when the key is not in the map (ret =
\* FALSE); else stores the reduced map through setData.
MapDelete(key) ==
    /\ exists["m"]
    /\ IF data["m"].n[key] = NoH
       THEN Commit(Cur, refs, Op("mapDelete", "m", NoL, Num(key), FALSE))
       ELSE LET tmp == [data["m"].n EXCEPT ![key] = NoH]
            IN Commit(Setter(Cur, "m", MapOf(tmp)).S, refs,
                      Op("mapDelete", "m", NoL, Num(key), TRUE))
    /\ UNCHANGED <<exists, held, collected, finalized, onDieCalls, input, cb,
                   strongRefs, caps>>

\* After create(va), create(vb) and WhisprMap.create(): both cells hold the
\* empty map, and the constructor's listener on data has refreshed once.
InitMap ==
    \E va \in Nums, vb \in Nums :
       /\ exists = [h \in Handles |-> h \in Roots \cup MapCells]
       /\ data = [h \in Handles |->
                    CASE h = "a" -> va
                      [] h = "b" -> vb
                      [] h = "m" -> MapOf([key \in Keys |-> NoH])
                      [] h = "mm" -> MapOf([key \in Keys |-> NoEntry])
                      [] OTHER -> Undef]
       /\ listeners = [h \in Handles |->
                         IF h = "m" THEN <<RefreshListener>> ELSE <<>>]
       /\ heap = EmptyHeap
       /\ pending = EmptyBag
       /\ held = [h \in Handles |-> h \in Roots \cup MapCells]
       /\ collected = [h \in Handles |-> FALSE]
       /\ finalized = [h \in Handles |-> FALSE]
       /\ onDieCalls = [h \in Handles |-> 0]
       /\ input = [h \in Handles |-> <<>>]
       /\ cb = [h \in Handles |-> "sum"]
       /\ strongRefs = <<>>
       /\ promise = [w \in Waiters |-> [st |-> "none", v |-> Undef]]
       /\ refs = {}
       /\ caps = {}
       /\ op = Op("mapCreate", "m", NoL, Undef, TRUE)
       /\ trace = <<>>

NextMap ==
    \/ \E h \in Roots, v \in Nums : Write(h, v)
    \/ \E key \in Keys, h \in Roots, force \in BOOLEAN : MapSet(key, h, force)
    \/ \E key \in Keys : MapDelete(key)
    \/ \E i \in BOOLEAN : DoSubscribe("mm", L("plain", 1, NoH), i, FALSE)

SpecMap == InitMap /\ [][NextMap]_vars

\* The Map of every key in the map to the current value of its member.
MapValue(D) ==
    MapOf([key \in Keys |->
             IF D["m"].n[key] = NoH THEN NoEntry ELSE D[D["m"].n[key]]])

(***************************************************************************)
(* C20.  After any sequence of WhisprMap set / delete mutations and writes *)
(* to member handles has returned, the map's value has exactly the keys    *)
(* currently in the map, each mapped to the current value of its member    *)
(* handle; and a write to a member handle notifies the map's subscribers   *)
(* with that updated map.                                                  *)
(***************************************************************************)
C20_MapMirrorsMembers ==
    /\ [](data["mm"] = MapValue(data))
    /\ [][/\ (op'.name = "mapSet" /\ op'.ret) =>
                data'["m"].n = [data["m"].n EXCEPT ![op'.v.n] = op'.h]
          /\ op'.name = "mapDelete" =>
                data'["m"].n = [data["m"].n EXCEPT ![op'.v.n] = NoH]
          /\ (op'.name \notin {"mapSet", "mapDelete"} \/ ~op'.ret) =>
                data'["m"] = data["m"]
          /\ (op'.name = "set" /\ \E key \in Keys : data["m"].n[key] = op'.h) =>
                \A i \in DOMAIN listeners["mm"] :
                   LET calls == CallsOf(trace', "mm", listeners["mm"][i])
                   IN /\ calls # {}
                      /\ \A k \in calls : trace'[k].v = data'["mm"]]_vars

\* A write to member b of the map {1: a, 2: b} that notified a subscriber
\* of the map with the updated map.
C20_Witness ==
    /\ op.name = "set" /\ op.h = "b" /\ op.v = Num(MaxNum)
    /\ data["m"].n[1] = "a" /\ data["m"].n[2] = "b"
    /\ data["a"] = Num(1)
    /\ data["mm"].n[1] = Num(1) /\ data["mm"].n[2] = Num(MaxNum)
    /\ \E k \in CallsOf(trace, "mm", L("plain", 1, NoH)) : trace[k].v = data["mm"]

(***************************************************************************)
(* C21.  WhisprMap set(key, value) adds the entry when the key is absent;  *)
(* when the key is present, set without force raises and leaves the map's  *)
(* entries, its value and every listener list as they were and notifies no *)
(* subscriber, while set with force = true replaces the entry.             *)
(***************************************************************************)
C21_SetChecksKey ==
    [][op'.name = "mapSet" =>
          LET key == op'.v.n
              present == data["m"].n[key] # NoH
              force == op'.v.k = "keyForce"
          IN IF present /\ ~force
             THEN /\ ~op'.ret
                  /\ data' = data /\ listeners' = listeners
                  /\ pending' = pending /\ trace' = <<>>
             ELSE /\ op'.ret
                  /\ data'["m"].n = [data["m"].n EXCEPT ![key] = op'.h]
                  /\ data'["mm"].n[key] = data'[op'.h]
                  /\ data'["mm"] = MapValue(data')]_vars

\* set without force on a key that holds the other member raised while the
\* map had a subscriber; the entry is the one a forced set had put there.
C21_Witness ==
    /\ op.name = "mapSet" /\ ~op.ret /\ op.v = KeyArg(1, FALSE)
    /\ op.h = "a" /\ data["m"].n[1] = "b"
    /\ Len(listeners["b"]) = 2
    /\ listeners["mm"] # <<>>


(***************************************************************************)
(* C22.  WhisprMap delete(key) removes the key from the map's value when   *)
(* it is present (the other keys keep their entries); when the key is      *)
(* absent it is a no-op: the map's value is unchanged and no subscriber of *)
(* the map is notified.                                                    *)
(***************************************************************************)
C22_DeleteFrame ==
    [][op'.name = "mapDelete" =>
          LET key == op'.v.n
          IN IF data["m"].n[key] = NoH
             THEN /\ data' = data /\ listeners' = listeners
                  /\ pending' = pending /\ trace' = <<>>
             ELSE /\ data'["m"].n = [data["m"].n EXCEPT ![key] = NoH]
                  /\ data'["mm"].n = [data["mm"].n EXCEPT ![key] = NoEntry]
                  /\ \A h \in Roots : data'[h] = data[h]]_vars

\* delete of a key that is not in the map, while the other key is and the
\* map has a subscriber.
C22_Witness ==
    /\ op.name = "mapDelete" /\ ~op.ret /\ op.v = Num(1)
    /\ data["m"].n[1] = NoH /\ data["m"].n[2] # NoH
    /\ data["mm"].n[2] = data[data["m"].n[2]]
    /\ listeners["mm"] # <<>>


(***************************************************************************)
(* C23.  from subscribes to each source non-immediately: during the from   *)
(* call the combining function is invoked exactly once (for the initial    *)
(* value), no source listener is dispatched, and nothing is written into   *)
(* the output handle until a source is next written: every later run of    *)
(* the combining function happens in a write to a source.                  *)
(***************************************************************************)
C23_FromSubscribesLater ==
    [][/\ op'.name = "from" =>
            /\ Cardinality(Recombinations(trace', op'.h)) = 1
            /\ \A i \in DOMAIN trace' : trace'[i].t # "call"
       /\ \A d \in Derived, i \in DOMAIN trace' :
            (trace'[i].t = "cb" /\ trace'[i].h = d /\ trace'[i].why = "write")
               => op'.name = "set"]_vars


(***************************************************************************)
(* Specification SpecUnsub: one handle, its setter, subscriptions (the     *)
(* same function possibly twice) whose unsubscribe functions the           *)
(* application may keep and invoke, a listener that stops and a listener   *)
(* that invokes the unsubscribe function of another.                       *)
(***************************************************************************)
UnsubListeners == {L("plain", 1, NoH), L("stop", 1, NoH), L("unsub", 1, "plain")}

NextUnsub ==
    \/ \E v \in Nums : Write("a", v)
    \/ \E l \in UnsubListeners, i \in BOOLEAN, keep \in BOOLEAN :
          \* the application holds at most one unsubscribe function per
          \* listener that it has not invoked yet
          /\ keep => <<"a", l, FALSE>> \notin caps
          /\ DoSubscribe("a", l, i, keep)
    \/ \E c \in caps : DoUnsubscribe(c)

SpecUnsub == Init /\ [][NextUnsub]_vars

(***************************************************************************)
(* C24.  Once a listener's unsubscribe capability has been invoked, that   *)
(* listener is not in the cell's list and the cell never invokes it again, *)
(* also when the capability is invoked by an earlier listener in the       *)
(* middle of a dispatch that has not yet reached the removed listener: a   *)
(* write notifies only listeners that are registered at the moment they    *)
(* are dispatched to.                                                      *)
(***************************************************************************)
C24_UnsubscribedNotInvoked ==
    [][/\ op'.name \in {"unsubscribe", "unsubscribeAgain"} =>
            /\ Occ(listeners'[op'.h], op'.l) = 0
            /\ trace' = <<>>
       /\ op'.name = "set" =>
            /\ \A i \in DOMAIN trace' :
                  trace'[i].t = "call" => Occ(listeners[op'.h], trace'[i].l) > 0
            /\ \A i \in DOMAIN trace', j \in DOMAIN trace' :
                  (i < j /\ trace'[i].t = "unsub")
                     => ~IsEv(trace'[j], "call", trace'[i].h, trace'[i].l)]_vars


\* The listener of the w-th wait call.
IsWaitListener(l, w) == l.kind = "wait" /\ l.id = w

(***************************************************************************)
(* C25.  Once wait has resolved, its listener is no longer in the handle's *)
(* listener list and the predicate is never evaluated on any later write;  *)
(* while wait is pending, its listener stays subscribed and the predicate  *)
(* is evaluated on every delivered value.                                  *)
(***************************************************************************)
C25_WaitSubscribedWhilePending ==
    [][\A w \in Waiters :
         /\ promise'[w].st = "resolved" =>
               \A h \in Handles : \A k \in DOMAIN listeners'[h] :
                  ~IsWaitListener(listeners'[h][k], w)
         /\ promise[w].st = "resolved" =>
               \A i \in DOMAIN trace' :
                  ~(trace'[i].t \in {"call", "pred"} /\ IsWaitListener(trace'[i].l, w))
         /\ promise'[w].st = "pending" =>
               \E k \in DOMAIN listeners'["a"] : IsWaitListener(listeners'["a"][k], w)
         /\ \A i \in DOMAIN trace' :
               (trace'[i].t = "call" /\ IsWaitListener(trace'[i].l, w)) =>
                  /\ i < Len(trace')
                  /\ trace'[i + 1].t = "pred" /\ trace'[i + 1].l = trace'[i].l
                  /\ trace'[i + 1].v = trace'[i].v]_vars


(***************************************************************************)
(* C26.  After a key has been deleted from a WhisprMap (or its entry       *)
(* replaced with force), the refresh handler that was subscribed on the    *)
(* removed member handle is no longer triggered: a later write to a handle *)
(* that is not in the map runs no refresh, notifies no subscriber of the   *)
(* map and leaves the map's value unchanged.                               *)
(***************************************************************************)
C26_RemovedMemberSilent ==
    [][(op'.name = "set" /\ \A key \in Keys : data["m"].n[key] # op'.h) =>
          /\ data'["mm"] = data["mm"]
          /\ CallsOf(trace', op'.h, RefreshListener) = {}
          /\ \A i \in DOMAIN trace' : ~(trace'[i].t = "call" /\ trace'[i].h = "mm")]_vars


\* The events of kind t about listener l of cell h recorded in tr.
EventsOf(tr, t, h, l) == {i \in DOMAIN tr : IsEv(tr[i], t, h, l)}

(***************************************************************************)
(* C27.  Each subscribe call creates an independent subscription even when *)
(* the same listener function is subscribed more than once to the same     *)
(* cell: invoking an unsubscribe capability for the first time removes at  *)
(* most the one subscription it was made for and no other listener, a STOP *)
(* returned through one subscription (or an unsubscribe capability a       *)
(* listener invokes) removes one subscription at most, and invoking a      *)
(* capability again changes nothing, even if the same function has been    *)
(* subscribed again in between.                                            *)
(***************************************************************************)
C27_IndependentSubscriptions ==
    [][/\ op'.name = "unsubscribe" =>
            \A l \in UnsubListeners :
               Occ(listeners'[op'.h], l) >=
                  Occ(listeners[op'.h], l) - (IF l = op'.l THEN 1 ELSE 0)
       /\ op'.name = "unsubscribeAgain" => listeners' = listeners
       /\ op'.name \in {"subscribe", "subscribeLater", "set"} =>
            \A l \in UnsubListeners :
               Occ(listeners'[op'.h], l) >=
                  Occ(listeners[op'.h], l)
                     + (IF op'.name # "set" /\ op'.l = l THEN 1 ELSE 0)
                     - Cardinality(EventsOf(trace', "stop", op'.h, l))
                     - Cardinality(EventsOf(trace', "unsub", op'.h, l))]_vars


\* The value cell h holds when the k-th event of the dispatch tr of a write
\* of v happens: v, or the value a writing listener invoked before has
\* stored since.
ValueAt(tr, h, v, k) ==
    IF \E j \in 1..(k - 1) : /\ tr[j].t = "call" /\ tr[j].h = h
                             /\ tr[j].l.kind = "writer" /\ tr[j].v # WriterVal
    THEN WriterVal ELSE v
LastOf(S) == CHOOSE i \in S : \A j \in S : j <= i

(***************************************************************************)
(* C28.  Every notification delivers the cell's value as it is at the      *)
(* moment the listener is invoked; with a listener that writes to the same *)
(* cell during the dispatch, a listener may be invoked twice with the      *)
(* newest value and never with the intermediate one; and once the          *)
(* outermost write has returned, the last value delivered to every         *)
(* listener that was subscribed before the write and is still subscribed   *)
(* equals the cell's current value.                                        *)
(***************************************************************************)
C28_DeliversCurrentValue ==
    [][(op'.name = "set" /\ op'.ret) =>
          /\ \A k \in DOMAIN trace' :
                (trace'[k].t = "call" /\ trace'[k].h = op'.h) =>
                   trace'[k].v = ValueAt(trace', op'.h, op'.v, k)
          /\ \A i \in DOMAIN listeners[op'.h] :
                LET l == listeners[op'.h][i]
                    calls == CallsOf(trace', op'.h, l)
                IN Occ(listeners'[op'.h], l) > 0 =>
                      /\ calls # {}
                      /\ trace'[LastOf(calls)].v = data'[op'.h]]_vars

\* A write of 1 with a writing listener subscribed before a plain one: the
\* plain listener was invoked twice with 0 and never with 1.
C28_Witness ==
    /\ op.name = "set" /\ op.ret /\ op.v = Num(1)
    /\ listeners[op.h] = <<L("writer", 1, NoH), L("plain", 1, NoH)>>
    /\ data[op.h] = WriterVal
    /\ Cardinality(CallsOf(trace, op.h, L("plain", 1, NoH))) = 2
    /\ \A k \in CallsOf(trace, op.h, L("plain", 1, NoH)) : trace[k].v = WriterVal


(***************************************************************************)
(* Specification SpecSubGC: root handle a, derived handles d1 and d2 made  *)
(* by from over one source, subscribers on the derived handles, and the    *)
(* collector taking the derived handles the application dropped.           *)
(***************************************************************************)
SubGCDerived == {"d1", "d2"}

NextSubGC ==
    \/ \E v \in Nums : Write("a", v)
    \/ \E d \in SubGCDerived, srcs \in ChainLists : From(d, srcs, CbFor(srcs))
    \/ \E d \in SubGCDerived, i \in BOOLEAN :
          DoSubscribe(d, L("plain", 1, NoH), i, FALSE)
    \/ \E d \in SubGCDerived : Drop(d)
    \/ \E d \in SubGCDerived : Collect(d)
    \/ \E d \in SubGCDerived : Finalize(d)

SpecSubGC == InitGraph /\ [][NextSubGC]_vars

\* No reference to handle d is retained: the application does not hold it
\* and it is not a source of a derived handle that is still registered.
Unreferenced(d) ==
    /\ ~held[d]
    /\ \A e \in Derived : (exists[e] /\ ~finalized[e]) => d \notin Range(input[e])

(***************************************************************************)
(* C29.  A handle's liveness depends only on strong references to the      *)
(* handle itself, never on its listener list: a derived handle to which no *)
(* reference is retained can die whether or not it has subscribers; after  *)
(* it has died its subscribers receive no further notification for any     *)
(* later write to its sources and its value no longer changes, and the     *)
(* writes to the sources still return true.                                *)
(***************************************************************************)
C29_ListenersDoNotRetain ==
    /\ [](\A d \in SubGCDerived :
             (Alive(d) /\ Unreferenced(d)) => ENABLED Collect(d))
    /\ [][op'.name = "set" =>
             /\ op'.ret
             /\ \A d \in Derived :
                   collected[d] =>
                      /\ data'[d] = data[d]
                      /\ listeners'[d] = listeners[d]
                      /\ \A i \in DOMAIN trace' :
                            ~(trace'[i].t = "call" /\ trace'[i].h = d)]_vars

\* Derived handle d1 died with a subscriber in its listener list; a write
\* to its source a returned true, ran d1's listener on a and reached no
\* subscriber of d1.
C29_Witness ==
    /\ op.name = "set" /\ op.h = "a" /\ op.ret
    /\ input["d1"] = <<"a">>
    /\ collected["d1"] /\ ~finalized["d1"]
    /\ listeners["d1"] # <<>>
    /\ Recombinations(trace, "d1") # {}
    /\ \A i \in DOMAIN trace : ~(trace[i].t = "call" /\ trace[i].h = "d1")


(***************************************************************************)
(* Specification SpecFromRaise: root handle a, its setter, and from calls  *)
(* over one source whose combining function computes or raises.            *)
(***************************************************************************)
NextFromRaise ==
    \/ \E v \in Nums : Write("a", v)
    \/ \E d \in Derived, srcs \in ChainLists, raises \in BOOLEAN :
          From(d, srcs, IF raises THEN RaisingCb ELSE CbFor(srcs))
    \/ \E d \in Derived : Drop(d)

SpecFromRaise == InitGraph /\ [][NextFromRaise]_vars

(***************************************************************************)
(* C30.  If the combining function raises during from's initial            *)
(* computation, the from call fails without leaving anything behind: no    *)
(* strongRefs entry for the allocated derivation key remains and no        *)
(* listener has been added to any source.                                  *)
(***************************************************************************)
C30_FailedFromLeavesNothing ==
    [][(op'.name = "from" /\ ~op'.ret) =>
          /\ op'.h \notin DOMAIN strongRefs'
          /\ strongRefs' = strongRefs
          /\ listeners' = listeners
          /\ exists' = exists /\ data' = data]_vars


=============================================================================
